---- MODULE Spec2Model ----
(***************************************************************************)
(* Model of snapshot-insight's package etcd: the restore / start / cleanup *)
(* workflows that drive the container runtime, the certificate issuance    *)
(* (GenerateSelfSignedCAWithSAN), its relocation into a Docker volume      *)
(* (GenerateSelfSignedCAInVolume) and the kubeconfig generation.           *)
(*                                                                         *)
(* One workflow runs at a time (the package has no concurrent entry        *)
(* point).  A workflow is a sequence of steps; pc is the position in the   *)
(* running function.  Every external action (docker, key generation, file  *)
(* system) may fail; which outcome happens is chosen nondeterministically. *)
(***************************************************************************)
EXTENDS Naturals, Sequences, FiniteSets

\* ------------------------------------------------------------------ bounds
\* number of top-level calls made in one behaviour
MaxCalls == 2
\* longest file of arbitrary bytes
MaxBytes == 4

\* ------------------------------------------------------------------ names
ContainerNames == {"etcd", "kube-apiserver"}
VolumeNames == {"etcd-data", "certs"}
EtcdEndpoints == {"", "http://127.0.0.1:2379"}
ServerURLs == {"https://127.0.0.1:6443", "https://10.0.0.5:6443"}
HostIP == "10.0.0.5"

\* the four artifacts, in the order the shell expands /tmp/certs/*
CertFiles == <<"ca.crt", "ca.key", "client.crt", "client.key">>
CertFileSet == {CertFiles[i] : i \in 1..4}
DataFile == "member"
FileNames == CertFileSet \cup {DataFile}

NoFile == [type |-> "absent"]
\* a file that os.Create made (or truncated) and pem.Encode did not finish
Truncated == [type |-> "truncated"]
NoContainer == [image |-> "none"]
NoKey == 0

EmptyFiles == [f \in FileNames |-> NoFile]
EmptyDir == [exists |-> TRUE, files |-> EmptyFiles]
NoDir == [exists |-> FALSE, files |-> EmptyFiles]
NoVolume == [exists |-> FALSE, files |-> EmptyFiles]

\* ------------------------------------------------------------------ X.509
CASerial == 1
ClientSerial == 2
CASubject == "Kubernetes CA"
ClientSubject == "Kubernetes Client"

\* x509.CreateCertificate(rand, template, parent, pub, priv): the issuer is the
\* parent's subject, the signature is made with priv
CreateCertificate(serial, subject, isCA, parentSubject, pub, priv, ip) ==
  [type |-> "CERTIFICATE", serial |-> serial, subject |-> subject,
   issuer |-> parentSubject, isCA |-> isCA, pub |-> pub, signedBy |-> priv,
   san |-> ip]

\* x509.MarshalECPrivateKey + the PEM block type of the key files
MarshalECPrivateKey(priv) == [type |-> "EC PRIVATE KEY", key |-> priv]

\* a key pair is identified by a number; the public half of key k verifies
\* exactly the signatures made with private key k
CheckSignatureFrom(cert, parent) ==
  /\ cert.type = "CERTIFICATE"
  /\ parent.type = "CERTIFICATE"
  /\ parent.isCA
  /\ cert.issuer = parent.subject
  /\ cert.signedBy = parent.pub

\* ------------------------------------------------------------------ bytes
\* a file of arbitrary bytes (what docker cp may find in a container)
Raw(bytes) == [type |-> "bytes", bytes |-> bytes]

NameCode(name) == IF name = CASubject THEN 1 ELSE 2

\* what os.ReadFile returns for a file: the model keeps an artifact as the
\* record that pem.Encode wrote; its bytes are a serialisation of that record,
\* different for different artifacts.  An empty or truncated file has none.
FileBytes(c) ==
  CASE c.type = "bytes" -> c.bytes
    [] c.type = "CERTIFICATE" ->
         <<48, c.serial, IF c.isCA THEN 1 ELSE 0, NameCode(c.subject),
           NameCode(c.issuer), c.pub, c.signedBy>>
    [] c.type = "EC PRIVATE KEY" -> <<4, c.key>>
    [] OTHER -> <<>>

\* the alphabet of base64.StdEncoding and its padding character
Alphabet ==
  <<"A", "B", "C", "D", "E", "F", "G", "H", "I", "J", "K", "L", "M", "N", "O", "P",
    "Q", "R", "S", "T", "U", "V", "W", "X", "Y", "Z", "a", "b", "c", "d", "e", "f",
    "g", "h", "i", "j", "k", "l", "m", "n", "o", "p", "q", "r", "s", "t", "u", "v",
    "w", "x", "y", "z", "0", "1", "2", "3", "4", "5", "6", "7", "8", "9", "+", "/">>
StdPadding == "="

\* the character of a 6-bit value, and the 6-bit value of a character
Char(v) == Alphabet[v + 1]
Value(ch) == (CHOOSE i \in 1..Len(Alphabet) : Alphabet[i] = ch) - 1

\* base64.StdEncoding.EncodeToString(bytes): three bytes give four characters,
\* a last group of one or two bytes is padded with "="
RECURSIVE EncodeToString(_)
EncodeToString(b) ==
  CASE Len(b) = 0 -> <<>>
    [] Len(b) = 1 ->
         <<Char(b[1] \div 4), Char((b[1] % 4) * 16), StdPadding, StdPadding>>
    [] Len(b) = 2 ->
         <<Char(b[1] \div 4), Char((b[1] % 4) * 16 + b[2] \div 16),
           Char((b[2] % 16) * 4), StdPadding>>
    [] OTHER ->
         <<Char(b[1] \div 4), Char((b[1] % 4) * 16 + b[2] \div 16),
           Char((b[2] % 16) * 4 + b[3] \div 64), Char(b[3] % 64)>>
         \o EncodeToString(SubSeq(b, 4, Len(b)))

\* base64.StdEncoding.DecodeString(s) of a well-formed s: four characters give
\* three bytes, fewer where the group ends in padding
RECURSIVE DecodeString(_)
DecodeString(s) ==
  IF Len(s) < 4 THEN <<>>
  ELSE LET v1 == Value(s[1])
           v2 == Value(s[2])
           rest == DecodeString(SubSeq(s, 5, Len(s)))
       IN  CASE s[3] = StdPadding -> <<v1 * 4 + v2 \div 16>>
             [] s[4] = StdPadding ->
                  <<v1 * 4 + v2 \div 16, (v2 % 16) * 16 + Value(s[3]) \div 4>>
             [] OTHER ->
                  <<v1 * 4 + v2 \div 16, (v2 % 16) * 16 + Value(s[3]) \div 4,
                    (Value(s[3]) % 4) * 64 + Value(s[4])>> \o rest

VARIABLES
  containers,  \* docker: container name -> NoContainer or the container
  volumes,     \* docker: volume name -> existence and files
  dirs,        \* local directories: "out", "certtmp", "kctmp"
  kubeconfig,  \* the file at kubeconfigPath
  wf,          \* the top-level function that was called
  pc,          \* position in the running function
  args,        \* arguments of the call
  result,      \* what the top-level function returned: "none", "ok" or an error
  issueRet,    \* what GenerateSelfSignedCAWithSAN returned in this call
  volRet,      \* what GenerateSelfSignedCAInVolume returned in this call
  loc,         \* local variables of the running functions
  log,         \* external actions of this call, in order, with their outcome
  calls,       \* number of top-level calls so far
  nextKey,     \* key pairs generated so far (the next key is nextKey + 1)
  issued,      \* the artifacts of every issuance that returned success
  caKeys,      \* the key pairs that were generated as CA keys
  kcBefore     \* the file at kubeconfigPath when this call began

vars == <<containers, volumes, dirs, kubeconfig, wf, pc, args, result, issueRet,
          volRet, loc, log, calls, nextKey, issued, caKeys, kcBefore>>

docker == <<containers, volumes>>

Dirs == {"out", "certtmp", "kctmp"}

NoArgs == [containerName |-> "", volumeName |-> "", etcdEndpoint |-> "",
           serverURL |-> "", dir |-> ""]
NoLoc == [caPriv |-> NoKey, caCert |-> NoFile, clientPriv |-> NoKey,
          clientCert |-> NoFile, caCertBytes |-> NoFile,
          clientCertBytes |-> NoFile, clientKeyBytes |-> NoFile]

\* a document some earlier tool left at kubeconfigPath
OldDoc == [type |-> "foreign"]

Init ==
  /\ containers = [c \in ContainerNames |-> NoContainer]
  /\ volumes = [v \in VolumeNames |-> NoVolume]
  /\ dirs = [d \in Dirs |-> IF d = "out" THEN EmptyDir ELSE NoDir]
  /\ kubeconfig \in {NoFile, OldDoc}
  /\ wf = "none"
  /\ pc = "idle"
  /\ args = NoArgs
  /\ result = "none"
  /\ issueRet = "none"
  /\ volRet = "none"
  /\ loc = NoLoc
  /\ log = <<>>
  /\ calls = 0
  /\ nextKey = 0
  /\ issued = <<>>
  /\ caKeys = {}
  /\ kcBefore = kubeconfig

\* an entry of log: the action, what it acted on, and how it ended
EvOut(act, tgt, out) == [act |-> act, tgt |-> tgt, out |-> out]
Ev(act, tgt, ok) == EvOut(act, tgt, IF ok THEN "ok" ELSE "fail")

\* what no step of a call changes
ctl == <<wf, args, calls, kcBefore>>
\* what only the issuance changes
keys == <<nextKey, issued, caKeys>>

\* ------------------------------------------------------------ docker
Container(image, vol, path) == [image |-> image, vol |-> vol, path |-> path]

Exists(c) == containers[c] # NoContainer
InUse(v) == \E c \in ContainerNames : Exists(c) /\ containers[c].vol = v

\* docker rm -f name.  For an absent container the exit status depends on the
\* docker version, for a present one on the daemon: either outcome is possible
RemoveContainer(name, ok) ==
  IF ok THEN [containers EXCEPT ![name] = NoContainer] ELSE containers

\* docker volume rm name succeeds only on a volume that exists and that no
\* container uses
CanRemoveVolume(name) == volumes[name].exists /\ ~InUse(name)
RemoveVolume(name, ok) ==
  IF ok THEN [volumes EXCEPT ![name] = NoVolume] ELSE volumes

\* docker volume create name: a volume that exists is left as it is
CreateVolume(name, ok) ==
  IF ok THEN [volumes EXCEPT ![name].exists = TRUE] ELSE volumes

\* docker run -v name:path creates the named volume when it is absent
Mounted(name) == [volumes EXCEPT ![name].exists = TRUE]

\* the data directory etcdutl snapshot restore writes
RestoredData == [type |-> "etcd-data", call |-> calls]

\* a top-level call may begin when no call is running
CanCall == pc \in {"idle", "done"} /\ calls < MaxCalls

\* what every call sets on entry
Enter(w, a, p) ==
  /\ wf' = w
  /\ args' = a
  /\ pc' = p
  /\ result' = "none"
  /\ issueRet' = "none"
  /\ volRet' = "none"
  /\ loc' = NoLoc
  /\ log' = <<>>
  /\ calls' = calls + 1
  /\ kcBefore' = kubeconfig

\* the top-level function returns r
Finish(r) ==
  /\ result' = r
  /\ pc' = "done"

WriteFile(d, f, content) ==
  [dirs EXCEPT ![d].files[f] = content]

\* ------------------------------------------------ GenerateSelfSignedCAWithSAN
\* the function returns err: to the operator when called directly, to
\* GenerateSelfSignedCAInVolume otherwise
IssueReturn(r) ==
  /\ issueRet' = r
  /\ IF wf = "issue"
       THEN Finish(r)
       ELSE /\ pc' = "v_checkIssue"
            /\ UNCHANGED result

\* a direct call of GenerateSelfSignedCAWithSAN with the four paths in "out"
CallIssue ==
  /\ CanCall
  /\ Enter("issue", [NoArgs EXCEPT !.dir = "out"], "i_genCAKey")
  /\ UNCHANGED <<docker, dirs, kubeconfig, keys>>

\* ecdsa.GenerateKey for the CA
GenCAKey ==
  /\ pc = "i_genCAKey"
  /\ \E ok \in BOOLEAN :
       /\ log' = Append(log, Ev("keygen", "ca", ok))
       /\ IF ok
            THEN /\ nextKey' = nextKey + 1
                 /\ caKeys' = caKeys \cup {nextKey + 1}
                 /\ loc' = [loc EXCEPT !.caPriv = nextKey + 1]
                 /\ pc' = "i_createCACert"
                 /\ UNCHANGED <<issueRet, result>>
            ELSE /\ IssueReturn("failed to generate CA private key")
                 /\ UNCHANGED <<nextKey, caKeys, loc>>
  /\ UNCHANGED <<docker, dirs, kubeconfig, ctl, volRet, issued>>

\* x509.CreateCertificate for the CA: template and parent are both caTemplate,
\* the key is the CA's own
CreateCACert ==
  /\ pc = "i_createCACert"
  /\ \E ok \in BOOLEAN :
       /\ log' = Append(log, Ev("sign", "ca.crt", ok))
       /\ IF ok
            THEN /\ loc' = [loc EXCEPT !.caCert =
                      CreateCertificate(CASerial, CASubject, TRUE, CASubject,
                                        loc.caPriv, loc.caPriv, HostIP)]
                 /\ pc' = "i_writeCACert"
                 /\ UNCHANGED <<issueRet, result>>
            ELSE /\ IssueReturn("failed to create CA certificate")
                 /\ UNCHANGED loc
  /\ UNCHANGED <<docker, dirs, kubeconfig, ctl, volRet, keys>>

\* writePEMFile(path, blockType, data): os.Create, then pem.Encode.  "create":
\* os.Create failed, the path is as it was; "encode": the file was created (or
\* truncated) and pem.Encode failed
WriteOutcomes == {"ok", "create", "encode"}

\* mutant: a failed write clears the output directory
writePEMFile_Cleanup(f, data, out) ==
  IF out = "ok" THEN WriteFile(args.dir, f, data)
                ELSE [dirs EXCEPT ![args.dir].files = EmptyFiles]

writePEMFile(f, data, out) ==
  CASE out = "ok" -> WriteFile(args.dir, f, data)
    [] out = "create" -> dirs
    [] out = "encode" -> WriteFile(args.dir, f, Truncated)

\* one step "write file f": the code of lines 170-172, 179-181, 210-212, 219-221
WriteStep(here, f, data, next, err) ==
  /\ pc = here
  /\ \E out \in WriteOutcomes :
       /\ log' = Append(log, Ev("write", f, out = "ok"))
       /\ dirs' = writePEMFile(f, data, out)
       /\ IF out = "ok"
            THEN /\ pc' = next
                 /\ UNCHANGED <<issueRet, result>>
            ELSE IssueReturn(err)
  /\ UNCHANGED <<docker, kubeconfig, ctl, volRet, loc, keys>>

\* mutant: ca.key is never written, the client key follows ca.crt
WriteCACert_SkipsCAKey ==
  WriteStep("i_writeCACert", "ca.crt", loc.caCert, "i_genClientKey",
            "failed to write CA certificate")

WriteCACert ==
  WriteStep("i_writeCACert", "ca.crt", loc.caCert, "i_marshalCAKey",
            "failed to write CA certificate")

\* x509.MarshalECPrivateKey(priv): a step of its own, it writes nothing
MarshalStep(here, which, next, err) ==
  /\ pc = here
  /\ \E ok \in BOOLEAN :
       /\ log' = Append(log, Ev("marshal", which, ok))
       /\ IF ok
            THEN /\ pc' = next
                 /\ UNCHANGED <<issueRet, result>>
            ELSE IssueReturn(err)
  /\ UNCHANGED <<docker, dirs, kubeconfig, ctl, volRet, loc, keys>>

MarshalCAKey ==
  MarshalStep("i_marshalCAKey", "ca.key", "i_writeCAKey",
              "failed to marshal CA private key")

WriteCAKey ==
  WriteStep("i_writeCAKey", "ca.key", MarshalECPrivateKey(loc.caPriv),
            "i_genClientKey", "failed to write CA private key")

\* ecdsa.GenerateKey for the client
GenClientKey ==
  /\ pc = "i_genClientKey"
  /\ \E ok \in BOOLEAN :
       /\ log' = Append(log, Ev("keygen", "client", ok))
       /\ IF ok
            THEN /\ nextKey' = nextKey + 1
                 /\ loc' = [loc EXCEPT !.clientPriv = nextKey + 1]
                 /\ pc' = "i_createClientCert"
                 /\ UNCHANGED <<issueRet, result>>
            ELSE /\ IssueReturn("failed to generate client private key")
                 /\ UNCHANGED <<nextKey, loc>>
  /\ UNCHANGED <<docker, dirs, kubeconfig, ctl, volRet, issued, caKeys>>

\* mutant: the client certificate is signed with the client's own key
SignClientCert_SelfSigned(l) ==
  CreateCertificate(ClientSerial, ClientSubject, FALSE, CASubject,
                    l.clientPriv, l.clientPriv, HostIP)

\* the client certificate of this issuance: parent is caTemplate, the signing
\* key is caPriv
SignClientCert(l) ==
  CreateCertificate(ClientSerial, ClientSubject, FALSE, CASubject,
                    l.clientPriv, l.caPriv, HostIP)

\* x509.CreateCertificate for the client
CreateClientCert ==
  /\ pc = "i_createClientCert"
  /\ \E ok \in BOOLEAN :
       /\ log' = Append(log, Ev("sign", "client.crt", ok))
       /\ IF ok
            THEN /\ loc' = [loc EXCEPT !.clientCert = SignClientCert(loc)]
                 /\ pc' = "i_writeClientCert"
                 /\ UNCHANGED <<issueRet, result>>
            ELSE /\ IssueReturn("failed to create client certificate")
                 /\ UNCHANGED loc
  /\ UNCHANGED <<docker, dirs, kubeconfig, ctl, volRet, keys>>

WriteClientCert ==
  WriteStep("i_writeClientCert", "client.crt", loc.clientCert,
            "i_marshalClientKey", "failed to write client certificate")

MarshalClientKey ==
  MarshalStep("i_marshalClientKey", "client.key", "i_writeClientKey",
              "failed to marshal client private key")

WriteClientKey ==
  WriteStep("i_writeClientKey", "client.key", MarshalECPrivateKey(loc.clientPriv),
            "i_return", "failed to write client private key")

\* the artifacts an issuance produced
Bundle(l) ==
  [caCert |-> l.caCert, caKey |-> MarshalECPrivateKey(l.caPriv),
   clientCert |-> l.clientCert, clientKey |-> MarshalECPrivateKey(l.clientPriv),
   call |-> calls, via |-> wf]

\* return nil
IssueSuccess ==
  /\ pc = "i_return"
  /\ IssueReturn("ok")
  /\ issued' = Append(issued, Bundle(loc))
  /\ UNCHANGED <<docker, dirs, kubeconfig, ctl, volRet, loc, log, nextKey,
                 caKeys>>

\* -------------------------------------------------------- RestoreEtcdSnapshot
StatOutcomes == {"ok", "notexist", "error"}

CallRestore ==
  /\ CanCall
  /\ \E c \in ContainerNames, v \in VolumeNames :
       Enter("restore", [NoArgs EXCEPT !.containerName = c, !.volumeName = v],
             "r_stat")
  /\ UNCHANGED <<docker, dirs, kubeconfig, keys>>

\* os.Stat(snapshotPath): only os.IsNotExist(err) makes the function return
RestoreStat ==
  /\ pc = "r_stat"
  /\ \E out \in StatOutcomes :
       /\ log' = Append(log, EvOut("stat", "snapshot", out))
       /\ IF out = "notexist"
            THEN Finish("snapshot file not found")
            ELSE pc' = "r_pull" /\ UNCHANGED result
  /\ UNCHANGED <<docker, dirs, kubeconfig, ctl, keys, issueRet, volRet, loc>>

\* docker pull quay.io/coreos/etcd:v3.5.7
RestorePull ==
  /\ pc = "r_pull"
  /\ \E ok \in BOOLEAN :
       /\ log' = Append(log, Ev("pull", "etcd-image", ok))
       /\ IF ok
            THEN pc' = "r_rm" /\ UNCHANGED result
            ELSE Finish("failed to pull etcd Docker image")
  /\ UNCHANGED <<docker, dirs, kubeconfig, ctl, keys, issueRet, volRet, loc>>

\* docker rm -f containerName, the error is dropped
RestoreRemoveContainer ==
  /\ pc = "r_rm"
  /\ \E ok \in BOOLEAN :
       /\ log' = Append(log, Ev("rm", args.containerName, ok))
       /\ containers' = RemoveContainer(args.containerName, ok)
  /\ pc' = "r_volrm"
  /\ UNCHANGED <<volumes, dirs, kubeconfig, ctl, keys, result, issueRet, volRet, loc>>

\* docker volume rm volumeName, the error is dropped
RestoreRemoveVolume ==
  /\ pc = "r_volrm"
  /\ \E ok \in BOOLEAN :
       /\ ok => CanRemoveVolume(args.volumeName)
       /\ log' = Append(log, Ev("volrm", args.volumeName, ok))
       /\ volumes' = RemoveVolume(args.volumeName, ok)
  /\ pc' = "r_volcreate"
  /\ UNCHANGED <<containers, dirs, kubeconfig, ctl, keys, result, issueRet, volRet, loc>>

\* docker volume create volumeName
RestoreCreateVolume ==
  /\ pc = "r_volcreate"
  /\ \E ok \in BOOLEAN :
       /\ log' = Append(log, Ev("volcreate", args.volumeName, ok))
       /\ volumes' = CreateVolume(args.volumeName, ok)
       /\ IF ok
            THEN pc' = "r_run" /\ UNCHANGED result
            ELSE Finish("failed to create Docker volume")
  /\ UNCHANGED <<containers, dirs, kubeconfig, ctl, keys, issueRet, volRet, loc>>

\* docker run --rm --name containerName ... etcdutl snapshot restore: the
\* container is gone when the command returns; a failed restore may have
\* written nothing or a part of the data directory
RestoreRun ==
  /\ pc = "r_run"
  /\ \E out \in {"ok", "fail", "partial"} :
       /\ out = "ok" => ~Exists(args.containerName)
       /\ log' = Append(log, EvOut("restore", args.volumeName, out))
       /\ volumes' =
            CASE out = "ok" ->
                   [Mounted(args.volumeName) EXCEPT
                      ![args.volumeName].files[DataFile] = RestoredData]
              [] out = "partial" ->
                   [Mounted(args.volumeName) EXCEPT
                      ![args.volumeName].files[DataFile] = Truncated]
              [] out = "fail" -> volumes
       /\ IF out = "ok"
            THEN Finish("ok")
            ELSE Finish("failed to restore snapshot")
  /\ UNCHANGED <<containers, dirs, kubeconfig, ctl, keys, issueRet, volRet, loc>>

Restore ==
  \/ RestoreStat
  \/ RestorePull
  \/ RestoreRemoveContainer
  \/ RestoreRemoveVolume
  \/ RestoreCreateVolume
  \/ RestoreRun

\* ------------------------------------------------------------ StartEtcdServer
CallStartEtcd ==
  /\ CanCall
  /\ \E c \in ContainerNames, v \in VolumeNames :
       Enter("startEtcd", [NoArgs EXCEPT !.containerName = c, !.volumeName = v],
             "e_hostIP")
  /\ UNCHANGED <<docker, dirs, kubeconfig, keys>>

\* getHostIPAddress: hostname -I fails, or prints no address
EtcdHostIP ==
  /\ pc = "e_hostIP"
  /\ \E out \in {"ok", "fail", "empty"} :
       /\ log' = Append(log, EvOut("hostname", "host", out))
       /\ IF out = "ok"
            THEN pc' = "e_rm" /\ UNCHANGED result
            ELSE Finish("failed to resolve host IP address")
  /\ UNCHANGED <<docker, dirs, kubeconfig, ctl, keys, issueRet, volRet, loc>>

\* docker rm -f containerName, the error is dropped
EtcdRemoveContainer ==
  /\ pc = "e_rm"
  /\ \E ok \in BOOLEAN :
       /\ log' = Append(log, Ev("rm", args.containerName, ok))
       /\ containers' = RemoveContainer(args.containerName, ok)
  /\ pc' = "e_run"
  /\ UNCHANGED <<volumes, dirs, kubeconfig, ctl, keys, result, issueRet, volRet, loc>>

\* docker run -d --name name -v vol:path image: fails when the name is taken
RunDetached(name, image, vol, path, ok) ==
  /\ ok => ~Exists(name)
  /\ containers' = IF ok THEN [containers EXCEPT ![name] = Container(image, vol, path)]
                         ELSE containers
  /\ volumes' = IF ok THEN Mounted(vol) ELSE volumes

\* docker run -d ... quay.io/coreos/etcd:v3.5.7
EtcdRun ==
  /\ pc = "e_run"
  /\ \E ok \in BOOLEAN :
       /\ log' = Append(log, Ev("run", args.containerName, ok))
       /\ RunDetached(args.containerName, "etcd", args.volumeName, "/etcd-data", ok)
       /\ IF ok
            THEN Finish("ok")
            ELSE Finish("failed to start etcd server")
  /\ UNCHANGED <<dirs, kubeconfig, ctl, keys, issueRet, volRet, loc>>

StartEtcd ==
  \/ EtcdHostIP
  \/ EtcdRemoveContainer
  \/ EtcdRun

\* -------------------------------------------------------------------- cleanup
\* CleanupEtcd and CleanupKubeAPIServer: docker rm -f, the error is returned
CleanupContainer(w, err) ==
  /\ CanCall
  /\ \E c \in ContainerNames, ok \in BOOLEAN :
       /\ wf' = w
       /\ args' = [NoArgs EXCEPT !.containerName = c]
       /\ calls' = calls + 1
       /\ kcBefore' = kubeconfig
       /\ log' = <<Ev("rm", c, ok)>>
       /\ containers' = RemoveContainer(c, ok)
       /\ Finish(IF ok THEN "ok" ELSE err)
  /\ issueRet' = "none"
  /\ volRet' = "none"
  /\ loc' = NoLoc
  /\ UNCHANGED <<volumes, dirs, kubeconfig, keys>>

CleanupEtcd == CleanupContainer("cleanupEtcd", "failed to clean up etcd container")

CleanupKubeAPIServer ==
  CleanupContainer("cleanupKube", "failed to clean up kube-apiserver container")

\* CleanupVolume: docker volume rm, the error is returned
CleanupVolume ==
  /\ CanCall
  /\ \E v \in VolumeNames, ok \in BOOLEAN :
       /\ ok => CanRemoveVolume(v)
       /\ wf' = "cleanupVolume"
       /\ args' = [NoArgs EXCEPT !.volumeName = v]
       /\ calls' = calls + 1
       /\ kcBefore' = kubeconfig
       /\ log' = <<Ev("volrm", v, ok)>>
       /\ volumes' = RemoveVolume(v, ok)
       /\ Finish(IF ok THEN "ok" ELSE "failed to clean up Docker volume")
  /\ issueRet' = "none"
  /\ volRet' = "none"
  /\ loc' = NoLoc
  /\ UNCHANGED <<containers, dirs, kubeconfig, keys>>

\* ---------------------------------------------- GenerateSelfSignedCAInVolume
\* os.RemoveAll(tempDir), deferred: runs on every return after MkdirTemp
RemoveAll(d) == [dirs EXCEPT ![d] = NoDir]

\* GenerateSelfSignedCAInVolume returns r to StartKubeAPIServer
VolReturn(r) ==
  /\ volRet' = r
  /\ pc' = "k_checkVol"

\* os.MkdirTemp("", "kube-apiserver-certs"); the removal is deferred only
\* after it succeeded
VolMkdirTemp ==
  /\ pc = "v_mkdtemp"
  /\ \E ok \in BOOLEAN :
       /\ log' = Append(log, Ev("mkdtemp", "certtmp", ok))
       /\ IF ok
            THEN /\ dirs' = [dirs EXCEPT !["certtmp"] = EmptyDir]
                 /\ pc' = "i_genCAKey"
                 /\ UNCHANGED volRet
            ELSE /\ VolReturn("failed to create temporary directory")
                 /\ UNCHANGED dirs
  /\ UNCHANGED <<docker, kubeconfig, ctl, keys, result, issueRet, loc>>

\* the issuance returned an error: return it, the deferred RemoveAll runs
VolIssueFailed ==
  /\ pc = "v_checkIssue"
  /\ issueRet # "ok"
  /\ VolReturn("failed to generate self-signed CA and client certificates")
  /\ dirs' = RemoveAll("certtmp")
  /\ UNCHANGED <<docker, kubeconfig, ctl, keys, result, issueRet, loc, log>>

\* cp /tmp/certs/* /certs/ in the helper container: the first k files of the
\* staging directory, in the order of the glob, are in the volume afterwards
CopyIn(v, k) ==
  [Mounted(v) EXCEPT ![v].files =
     [f \in FileNames |->
        IF \E i \in 1..k : CertFiles[i] = f /\ dirs["certtmp"].files[f] # NoFile
          THEN dirs["certtmp"].files[f]
          ELSE volumes[v].files[f]]]

\* docker run --rm ... alpine sh -c "cp /tmp/certs/* /certs/", run once; then
\* the function returns and the deferred RemoveAll runs
VolCopy ==
  /\ pc = "v_checkIssue"
  /\ issueRet = "ok"
  /\ \E ok \in BOOLEAN, k \in 0..4 :
       /\ ok => k = 4
       /\ log' = Append(log, Ev("copyin", args.volumeName, ok))
       /\ volumes' = CopyIn(args.volumeName, k)
       /\ VolReturn(IF ok THEN "ok"
                    ELSE "failed to copy certificates and keys into Docker volume")
  /\ dirs' = RemoveAll("certtmp")
  /\ UNCHANGED <<containers, kubeconfig, ctl, keys, result, issueRet, loc>>

InVolume ==
  \/ VolMkdirTemp
  \/ VolIssueFailed
  \/ VolCopy

\* --------------------------------------------------------- StartKubeAPIServer
CallStartKube ==
  /\ CanCall
  /\ \E e \in EtcdEndpoints, c \in ContainerNames, v \in VolumeNames :
       Enter("startKube",
             [NoArgs EXCEPT !.etcdEndpoint = e, !.containerName = c,
                            !.volumeName = v, !.dir = "certtmp"],
             "k_rm")
  /\ UNCHANGED <<docker, dirs, kubeconfig, keys>>

\* mutant: etcdEndpoint is checked before the container is removed
KubeRemoveContainer_CheckFirst ==
  /\ pc = "k_rm"
  /\ IF args.etcdEndpoint = ""
       THEN /\ Finish("etcd endpoint is required to start kube-apiserver")
            /\ UNCHANGED <<log, containers>>
       ELSE /\ \E ok \in BOOLEAN :
                 /\ log' = Append(log, Ev("rm", args.containerName, ok))
                 /\ containers' = RemoveContainer(args.containerName, ok)
            /\ pc' = "k_volcreate"
            /\ UNCHANGED result
  /\ UNCHANGED <<volumes, dirs, kubeconfig, ctl, keys, issueRet, volRet, loc>>

\* docker rm -f containerName, the error is dropped; then the check of
\* etcdEndpoint
KubeRemoveContainer ==
  /\ pc = "k_rm"
  /\ \E ok \in BOOLEAN :
       /\ log' = Append(log, Ev("rm", args.containerName, ok))
       /\ containers' = RemoveContainer(args.containerName, ok)
  /\ IF args.etcdEndpoint = ""
       THEN Finish("etcd endpoint is required to start kube-apiserver")
       ELSE pc' = "k_volcreate" /\ UNCHANGED result
  /\ UNCHANGED <<volumes, dirs, kubeconfig, ctl, keys, issueRet, volRet, loc>>

\* mutant: the error of docker volume create is dropped
KubeCreateVolume_Ignored ==
  /\ pc = "k_volcreate"
  /\ \E ok \in BOOLEAN :
       /\ log' = Append(log, Ev("volcreate", args.volumeName, ok))
       /\ volumes' = CreateVolume(args.volumeName, ok)
  /\ pc' = "v_mkdtemp"
  /\ UNCHANGED <<containers, dirs, kubeconfig, ctl, keys, result, issueRet, volRet, loc>>

\* docker volume create volumeName; then the call of
\* GenerateSelfSignedCAInVolume
KubeCreateVolume ==
  /\ pc = "k_volcreate"
  /\ \E ok \in BOOLEAN :
       /\ log' = Append(log, Ev("volcreate", args.volumeName, ok))
       /\ volumes' = CreateVolume(args.volumeName, ok)
       /\ IF ok
            THEN pc' = "v_mkdtemp" /\ UNCHANGED result
            ELSE Finish("failed to create Docker volume")
  /\ UNCHANGED <<containers, dirs, kubeconfig, ctl, keys, issueRet, volRet, loc>>

\* mutant: the error of GenerateSelfSignedCAInVolume is dropped
KubeCheckVol_Ignored ==
  /\ pc = "k_checkVol"
  /\ pc' = "k_stat"
  /\ UNCHANGED <<docker, dirs, kubeconfig, ctl, keys, result, issueRet, volRet, loc, log>>

\* if err := GenerateSelfSignedCAInVolume(...); err != nil
KubeCheckVol ==
  /\ pc = "k_checkVol"
  /\ IF volRet = "ok"
       THEN pc' = "k_stat" /\ UNCHANGED result
       ELSE Finish("error generating self-signed CA")
  /\ UNCHANGED <<docker, dirs, kubeconfig, ctl, keys, issueRet, volRet, loc, log>>

\* os.Stat("./encryption-config.json")
KubeStat ==
  /\ pc = "k_stat"
  /\ \E out \in StatOutcomes :
       /\ log' = Append(log, EvOut("stat", "encryption-config", out))
       /\ IF out = "notexist"
            THEN Finish("encryption configuration file not found")
            ELSE pc' = "k_run" /\ UNCHANGED result
  /\ UNCHANGED <<docker, dirs, kubeconfig, ctl, keys, issueRet, volRet, loc>>

\* docker run -d ... k8s.gcr.io/kube-apiserver:v1.27.1
KubeRun ==
  /\ pc = "k_run"
  /\ \E ok \in BOOLEAN :
       /\ log' = Append(log, Ev("run", args.containerName, ok))
       /\ RunDetached(args.containerName, "kube-apiserver", args.volumeName,
                      "/certs", ok)
       /\ IF ok
            THEN Finish("ok")
            ELSE Finish("failed to start kube-apiserver")
  /\ UNCHANGED <<dirs, kubeconfig, ctl, keys, issueRet, volRet, loc>>

StartKube ==
  \/ KubeRemoveContainer
  \/ KubeCreateVolume
  \/ KubeCheckVol
  \/ KubeStat
  \/ KubeRun

\* --------------------------------------------------------- GenerateKubeconfig
CallKubeconfig ==
  /\ CanCall
  /\ \E c \in ContainerNames, u \in ServerURLs :
       Enter("kubeconfig",
             [NoArgs EXCEPT !.containerName = c, !.serverURL = u, !.dir = "kctmp"],
             "g_mkdtemp")
  /\ UNCHANGED <<docker, dirs, kubeconfig, keys>>

\* a return after MkdirTemp: the deferred RemoveAll runs
KubeconfigReturn(r) ==
  /\ Finish(r)
  /\ dirs' = RemoveAll("kctmp")

\* os.MkdirTemp("", "kubeconfig-certs")
KubeconfigMkdirTemp ==
  /\ pc = "g_mkdtemp"
  /\ \E ok \in BOOLEAN :
       /\ log' = Append(log, Ev("mkdtemp", "kctmp", ok))
       /\ IF ok
            THEN /\ dirs' = [dirs EXCEPT !["kctmp"] = EmptyDir]
                 /\ pc' = "g_cpCACert"
                 /\ UNCHANGED result
            ELSE /\ Finish("failed to create temporary directory")
                 /\ UNCHANGED dirs
  /\ UNCHANGED <<docker, kubeconfig, ctl, keys, issueRet, volRet, loc>>

\* mutant: the container path of the client key names ca.key
InContainer_WrongPath(c, f) ==
  IF Exists(c) /\ containers[c].path = "/certs"
    THEN volumes[containers[c].vol].files[IF f = "client.key" THEN "ca.key" ELSE f]
    ELSE NoFile

\* what docker cp name:/certs/f reads: the file f of the volume the container
\* mounts at /certs
InContainer(c, f) ==
  IF Exists(c) /\ containers[c].path = "/certs"
    THEN volumes[containers[c].vol].files[f]
    ELSE NoFile

\* mutant: the error of docker cp is dropped
copyFileFromContainer_Ignored(here, f, next, err) ==
  /\ pc = here
  /\ \E ok \in BOOLEAN :
       /\ ok => InContainer(args.containerName, f) # NoFile
       /\ log' = Append(log, Ev("cp", f, ok))
       /\ dirs' = IF ok THEN WriteFile("kctmp", f, InContainer(args.containerName, f))
                        ELSE dirs
       /\ pc' = next
       /\ UNCHANGED result
  /\ UNCHANGED <<docker, kubeconfig, ctl, keys, issueRet, volRet, loc>>

\* copyFileFromContainer(containerName, "/certs/" + f, tempDir + "/" + f)
copyFileFromContainer(here, f, next, err) ==
  /\ pc = here
  /\ \E ok \in BOOLEAN :
       /\ ok => InContainer(args.containerName, f) # NoFile
       /\ log' = Append(log, Ev("cp", f, ok))
       /\ IF ok
            THEN /\ dirs' = WriteFile("kctmp", f, InContainer(args.containerName, f))
                 /\ pc' = next
                 /\ UNCHANGED result
            ELSE KubeconfigReturn(err)
  /\ UNCHANGED <<docker, kubeconfig, ctl, keys, issueRet, volRet, loc>>

CopyCACert ==
  copyFileFromContainer("g_cpCACert", "ca.crt", "g_cpClientCert",
                        "failed to copy CA certificate from container")

CopyClientCert ==
  copyFileFromContainer("g_cpClientCert", "client.crt", "g_cpClientKey",
                        "failed to copy client certificate from container")

CopyClientKey ==
  copyFileFromContainer("g_cpClientKey", "client.key", "g_read",
                        "failed to copy client key from container")

\* the three os.ReadFile calls, in order; out names the first that fails
ReadCerts ==
  /\ pc = "g_read"
  /\ \E out \in {"ok", "ca.crt", "client.crt", "client.key"} :
       /\ log' = Append(log, EvOut("read", "kctmp", IF out = "ok" THEN "ok" ELSE "fail"))
       /\ loc' = [loc EXCEPT
            !.caCertBytes =
               IF out \in {"ca.crt"} THEN NoFile
               ELSE dirs["kctmp"].files["ca.crt"],
            !.clientCertBytes =
               IF out \in {"ca.crt", "client.crt"} THEN NoFile
               ELSE dirs["kctmp"].files["client.crt"],
            !.clientKeyBytes =
               IF out # "ok" THEN NoFile
               ELSE dirs["kctmp"].files["client.key"]]
       /\ IF out = "ok"
            THEN pc' = "g_create" /\ UNCHANGED <<result, dirs>>
            ELSE KubeconfigReturn(
                   CASE out = "ca.crt" -> "failed to read CA certificate"
                     [] out = "client.crt" -> "failed to read client certificate"
                     [] out = "client.key" -> "failed to read client key")
  /\ UNCHANGED <<docker, kubeconfig, ctl, keys, issueRet, volRet>>

\* os.Create(kubeconfigPath): the file exists and is empty afterwards
KubeconfigCreate ==
  /\ pc = "g_create"
  /\ \E ok \in BOOLEAN :
       /\ log' = Append(log, Ev("create", "kubeconfig", ok))
       /\ IF ok
            THEN /\ kubeconfig' = Truncated
                 /\ pc' = "g_execute"
                 /\ UNCHANGED <<result, dirs>>
            ELSE /\ KubeconfigReturn("failed to create kubeconfig file")
                 /\ UNCHANGED kubeconfig
  /\ UNCHANGED <<docker, ctl, keys, issueRet, volRet, loc>>

\* mutant: the client certificate and the client key change places
Render_Swapped(url, caCertBytes, clientCertBytes, clientKeyBytes) ==
  [type |-> "kubeconfig",
   server |-> url,
   certificateAuthorityData |-> EncodeToString(FileBytes(caCertBytes)),
   clientCertificateData |-> EncodeToString(FileBytes(clientKeyBytes)),
   clientKeyData |-> EncodeToString(FileBytes(clientCertBytes))]

\* the data of the template and the document tmpl.Execute renders from it
Render(url, caCertBytes, clientCertBytes, clientKeyBytes) ==
  [type |-> "kubeconfig",
   server |-> url,
   certificateAuthorityData |-> EncodeToString(FileBytes(caCertBytes)),
   clientCertificateData |-> EncodeToString(FileBytes(clientCertBytes)),
   clientKeyData |-> EncodeToString(FileBytes(clientKeyBytes))]

\* tmpl.Execute(file, data); a failed write leaves a part of the document
KubeconfigExecute ==
  /\ pc = "g_execute"
  /\ \E ok \in BOOLEAN :
       /\ log' = Append(log, Ev("render", "kubeconfig", ok))
       /\ kubeconfig' =
            IF ok THEN Render(args.serverURL, loc.caCertBytes,
                              loc.clientCertBytes, loc.clientKeyBytes)
                  ELSE Truncated
       /\ KubeconfigReturn(IF ok THEN "ok" ELSE "failed to write kubeconfig file")
  /\ UNCHANGED <<docker, ctl, keys, issueRet, volRet, loc>>

Kubeconfig ==
  \/ KubeconfigMkdirTemp
  \/ CopyCACert
  \/ CopyClientCert
  \/ CopyClientKey
  \/ ReadCerts
  \/ KubeconfigCreate
  \/ KubeconfigExecute

Issue ==
  \/ GenCAKey
  \/ CreateCACert
  \/ WriteCACert
  \/ MarshalCAKey
  \/ WriteCAKey
  \/ GenClientKey
  \/ CreateClientCert
  \/ WriteClientCert
  \/ MarshalClientKey
  \/ WriteClientKey
  \/ IssueSuccess

Next ==
  \/ CallIssue
  \/ Issue
  \/ CallRestore
  \/ Restore
  \/ CallStartEtcd
  \/ StartEtcd
  \/ CallStartKube
  \/ InVolume
  \/ StartKube
  \/ CallKubeconfig
  \/ Kubeconfig
  \/ CleanupEtcd
  \/ CleanupKubeAPIServer
  \/ CleanupVolume

Spec == Init /\ [][Next]_vars

\* ---------------------------------------- kubeconfig from arbitrary files
\* byte values that exercise every bit of a base64 group
ByteValues == {0, 77, 255}

RECURSIVE ByteStrings(_)
ByteStrings(n) ==
  IF n = 0 THEN {<<>>}
  ELSE LET shorter == ByteStrings(n - 1)
       IN  shorter \cup {Append(b, v) : b \in {x \in shorter : Len(x) = n - 1},
                                        v \in ByteValues}

\* an API server container is running whose /certs holds three files of
\* arbitrary bytes, all different, of three consecutive lengths
InitKubeconfig ==
  /\ containers = [c \in ContainerNames |->
                     IF c = "kube-apiserver"
                       THEN Container("kube-apiserver", "certs", "/certs")
                       ELSE NoContainer]
  /\ \E b \in ByteStrings(MaxBytes) :
       volumes = [v \in VolumeNames |->
                    IF v = "certs"
                      THEN [exists |-> TRUE,
                            files |-> [f \in FileNames |->
                               CASE f = "ca.crt" -> Raw(b)
                                 [] f = "client.crt" -> Raw(Append(b, 1))
                                 [] f = "client.key" -> Raw(<<2, 3>> \o b)
                                 [] f = "ca.key" -> Raw(<<9>>)
                                 [] OTHER -> NoFile]]
                      ELSE NoVolume]
  /\ dirs = [d \in Dirs |-> IF d = "out" THEN EmptyDir ELSE NoDir]
  /\ kubeconfig \in {NoFile, OldDoc}
  /\ wf = "none"
  /\ pc = "idle"
  /\ args = NoArgs
  /\ result = "none"
  /\ issueRet = "none"
  /\ volRet = "none"
  /\ loc = NoLoc
  /\ log = <<>>
  /\ calls = 0
  /\ nextKey = 0
  /\ issued = <<>>
  /\ caKeys = {}
  /\ kcBefore = kubeconfig

NextKubeconfig ==
  \/ CallKubeconfig
  \/ Kubeconfig

SpecKubeconfig == InitKubeconfig /\ [][NextKubeconfig]_vars
\* ------------------------------------------------------------------ claims
\* positions of log
Pos == 1..Len(log)
Is(i, act, tgt) == log[i].act = act /\ log[i].tgt = tgt
IsOk(i, act, tgt) == Is(i, act, tgt) /\ log[i].out = "ok"
Failed(i) == log[i].out # "ok"
\* act on tgt succeeded at a position before i
OkBefore(i, act, tgt) == \E j \in Pos : j < i /\ IsOk(j, act, tgt)

\* GenerateSelfSignedCAWithSAN has just returned to its caller
IssueReturned ==
  \/ wf = "issue" /\ pc = "done"
  \/ wf = "startKube" /\ pc = "v_checkIssue"

\* the artifact of bundle b that is stored under the file name f
Artifact(b, f) ==
  CASE f = "ca.crt" -> b.caCert
    [] f = "ca.key" -> b.caKey
    [] f = "client.crt" -> b.clientCert
    [] f = "client.key" -> b.clientKey

\* C1: the issuance runs in order: the CA key is generated and ca.crt and ca.key
\* are written before the client key is generated; the client certificate is
\* signed and written only after both CA files are written; what kubeconfig
\* generation copies out of the container is an artifact of an issuance that
\* wrote all four files; and when the issuance returns success the four files
\* exist and hold the artifacts of this issuance.
C1_IssuanceOrder ==
  /\ \A i \in Pos :
       /\ Is(i, "write", "ca.crt") \/ Is(i, "write", "ca.key")
            => OkBefore(i, "keygen", "ca")
       /\ Is(i, "keygen", "client") \/ Is(i, "sign", "client.crt")
             \/ Is(i, "write", "client.crt") \/ Is(i, "write", "client.key")
            => /\ OkBefore(i, "write", "ca.crt")
               /\ OkBefore(i, "write", "ca.key")
       /\ Is(i, "write", "client.crt") => OkBefore(i, "sign", "client.crt")
  /\ \A f \in CertFileSet :
       dirs["kctmp"].files[f] # NoFile
         => \E n \in 1..Len(issued) : dirs["kctmp"].files[f] = Artifact(issued[n], f)
  /\ IssueReturned /\ issueRet = "ok"
       => /\ Len(issued) > 0
          /\ issued[Len(issued)].call = calls
          /\ \A f \in CertFileSet :
               /\ dirs[args.dir].files[f] # NoFile
               /\ dirs[args.dir].files[f] = Artifact(issued[Len(issued)], f)

\* an issuance has returned success to GenerateSelfSignedCAInVolume
C1_Witness ==
  /\ wf = "startKube" /\ pc = "v_checkIssue" /\ issueRet = "ok"
  /\ \E i \in Pos : IsOk(i, "write", "client.key")
\* the issuances that start cycles made
StartIssues == {n \in 1..Len(issued) : issued[n].via = "startKube"}

\* C2: two successive issuances made by two start cycles produce client
\* certificates with different serial numbers.
C2_SerialsDistinct ==
  \A m, n \in StartIssues :
    m # n => issued[m].clientCert.serial # issued[n].clientCert.serial

CopyFailed == \E i \in Pos : log[i].act = "cp" /\ Failed(i)

\* C3: if one of ca.crt, client.crt, client.key cannot be copied out of the
\* container, GenerateKubeconfig returns the error of that copy and the file at
\* kubeconfigPath is as it was when the call began.
C3_NoDocumentOnMissingArtifact ==
  wf = "kubeconfig" /\ CopyFailed
    => /\ pc = "done"
       /\ result \in {"failed to copy CA certificate from container",
                      "failed to copy client certificate from container",
                      "failed to copy client key from container"}
       /\ kubeconfig = kcBefore
       /\ \A i \in Pos : log[i].act \notin {"read", "create", "render"}

\* client.key could not be copied after the other two were, and a document of
\* an earlier tool is at kubeconfigPath
C3_Witness ==
  /\ wf = "kubeconfig" /\ pc = "done"
  /\ \E i \in Pos : Is(i, "cp", "client.key") /\ Failed(i)
  /\ \E i \in Pos : IsOk(i, "cp", "client.crt")
  /\ kcBefore = OldDoc

IssueActs == {"keygen", "sign", "marshal", "write"}
IssueFailed == issueRet \notin {"none", "ok"}

\* what a successful write of f in this issuance wrote
Written(f) ==
  CASE f = "ca.crt" -> loc.caCert
    [] f = "ca.key" -> MarshalECPrivateKey(loc.caPriv)
    [] f = "client.crt" -> loc.clientCert
    [] f = "client.key" -> MarshalECPrivateKey(loc.clientPriv)

WrittenOk(f) == \E i \in Pos : IsOk(i, "write", f)

\* C4 as claimed: when a step of the issuance fails, the files written by the
\* earlier steps are still there when the error is returned to the caller, also
\* to the caller of GenerateSelfSignedCAInVolume.
C4_Original ==
  IssueFailed /\ pc \in {"done", "v_checkIssue", "k_checkVol"}
    => \A f \in CertFileSet : WrittenOk(f) => dirs[args.dir].files[f] = Written(f)

\* C4 as amended: when a step of the issuance fails no later step runs, and
\* when GenerateSelfSignedCAWithSAN returns the error the files written by the
\* earlier steps are in the output directory; GenerateSelfSignedCAInVolume then
\* removes its staging directory before it returns the error to its caller.
C4_NoDeletionByIssuance ==
  /\ \A i \in Pos :
       log[i].act \in IssueActs /\ Failed(i)
         => /\ IssueFailed
            /\ \A j \in Pos : j > i => log[j].act \notin IssueActs \cup {"copyin"}
  /\ IssueFailed /\ IssueReturned
       => \A f \in CertFileSet : WrittenOk(f) => dirs[args.dir].files[f] = Written(f)
  /\ IssueFailed /\ wf = "startKube" /\ pc \in {"k_checkVol", "done"}
       => ~dirs["certtmp"].exists

\* the issuance failed after it had written ca.crt and has just returned
C4_Witness ==
  /\ IssueFailed /\ IssueReturned
  /\ WrittenOk("ca.crt")

NotFound == {"snapshot file not found", "encryption configuration file not found"}

\* C5: when the not-found error of a missing input file is returned, the call
\* has done nothing but look for the file.
C5_NotFoundBeforeSideEffects ==
  pc = "done" /\ result \in NotFound
    => \A i \in Pos : log[i].act = "stat"

\* the removals whose error the caller drops
Removals == {"rm", "volrm"}
Cleanups == {"cleanupEtcd", "cleanupKube", "cleanupVolume"}

\* the call is returning an error up to the operator, or has returned it
Returning ==
  \/ pc = "done" /\ result \notin {"none", "ok"}
  \/ pc = "v_checkIssue" /\ IssueFailed
  \/ pc = "k_checkVol" /\ volRet \notin {"none", "ok"}

C7_CleanupIdempotent ==
  /\ wf \in {"cleanupEtcd", "cleanupKube"} /\ pc = "done"
       /\ ~Exists(args.containerName)
       => result = "ok"
  /\ wf = "cleanupVolume" /\ pc = "done" /\ ~volumes[args.volumeName].exists
       => result = "ok"

\* C8: in StartKubeAPIServer the API server container is run only after the
\* four artifacts were written and the one relocation copy succeeded; if the
\* issuance or the relocation fails the call returns an error, the copy is not
\* run again and no container is run.
C8_RunAfterRelocation ==
  wf = "startKube" =>
    /\ \A i \in Pos :
         log[i].act = "run"
           => /\ \A f \in CertFileSet : OkBefore(i, "write", f)
              /\ OkBefore(i, "copyin", args.volumeName)
              /\ issueRet = "ok" /\ volRet = "ok"
    /\ Cardinality({i \in Pos : log[i].act = "copyin"}) <= 1
    /\ IssueFailed \/ volRet \notin {"none", "ok"}
         => /\ \A i \in Pos : log[i].act # "run"
            /\ pc = "done" => result = "error generating self-signed CA"

\* the API server container was run
C8_Witness ==
  /\ wf = "startKube" /\ pc = "done" /\ result = "ok"
  /\ \E i \in Pos : IsOk(i, "run", args.containerName)

\* the contents of every ca.key that was ever generated
CAKeyContents == {MarshalECPrivateKey(k) : k \in caKeys}
CAKeyBytes == {FileBytes(c) : c \in CAKeyContents}

\* C9: GenerateKubeconfig copies only ca.crt, client.crt and client.key out of
\* the container, and the contents of a ca.key are neither in its temporary
\* directory nor in what it read nor in a field of the rendered document.
C9_CAKeyStaysOnServer ==
  /\ \A i \in Pos :
       log[i].act = "cp" => log[i].tgt \in {"ca.crt", "client.crt", "client.key"}
  /\ \A f \in FileNames : dirs["kctmp"].files[f] \notin CAKeyContents
  /\ dirs["kctmp"].files["ca.key"] = NoFile
  /\ wf = "kubeconfig"
       => /\ loc.caCertBytes \notin CAKeyContents
          /\ loc.clientCertBytes \notin CAKeyContents
          /\ loc.clientKeyBytes \notin CAKeyContents
  /\ kubeconfig.type = "kubeconfig"
       => /\ DecodeString(kubeconfig.certificateAuthorityData) \notin CAKeyBytes
          /\ DecodeString(kubeconfig.clientCertificateData) \notin CAKeyBytes
          /\ DecodeString(kubeconfig.clientKeyData) \notin CAKeyBytes

\* a document was rendered from the files of a running API server
C9_Witness ==
  /\ wf = "kubeconfig" /\ pc = "done" /\ result = "ok"
  /\ kubeconfig.type = "kubeconfig"
  /\ \E n \in 1..Len(issued) :
       DecodeString(kubeconfig.clientKeyData) = FileBytes(issued[n].clientKey)

\* C10: after every successful issuance the CA certificate is self-signed
\* (issuer = subject, IsCA, signed with its own key), the client certificate
\* is issued by that CA and signed with the CA key of the same issuance, so
\* it verifies against its own CA and against the CA of no other issuance.
C10_ChainOfIssuance ==
  \A n \in 1..Len(issued) :
    LET b == issued[n] IN
      /\ b.caCert.issuer = b.caCert.subject
      /\ b.caCert.isCA
      /\ b.caCert.pub = b.caKey.key
      /\ CheckSignatureFrom(b.caCert, b.caCert)
      /\ b.clientCert.issuer = b.caCert.subject
      /\ b.clientCert.signedBy = b.caKey.key
      /\ b.clientCert.pub = b.clientKey.key
      /\ CheckSignatureFrom(b.clientCert, b.caCert)
      /\ \A m \in 1..Len(issued) :
           m # n => ~CheckSignatureFrom(b.clientCert, issued[m].caCert)

\* two issuances have succeeded
C10_Witness == Len(issued) >= 2 /\ pc = "done"

\* GenerateKubeconfig has returned success
KubeconfigDone == wf = "kubeconfig" /\ pc = "done" /\ result = "ok"

\* C11: a successful GenerateKubeconfig writes a document whose
\* certificate-authority-data, client-certificate-data and client-key-data,
\* base64-decoded, are the bytes of ca.crt, client.crt and client.key of the
\* container, each field its own file, and whose server is the given URL.
C11_FieldsDecodeToFiles ==
  KubeconfigDone
    => /\ kubeconfig.type = "kubeconfig"
       /\ kubeconfig.server = args.serverURL
       /\ DecodeString(kubeconfig.certificateAuthorityData)
            = FileBytes(InContainer(args.containerName, "ca.crt"))
       /\ DecodeString(kubeconfig.clientCertificateData)
            = FileBytes(InContainer(args.containerName, "client.crt"))
       /\ DecodeString(kubeconfig.clientKeyData)
            = FileBytes(InContainer(args.containerName, "client.key"))

\* a document was written from files whose base64 ends in no padding, in "=="
\* and in one "="
C11_Witness ==
  /\ KubeconfigDone
  /\ LET ca == kubeconfig.certificateAuthorityData
         cert == kubeconfig.clientCertificateData
         key == kubeconfig.clientKeyData
     IN  /\ Len(ca) = 4 /\ ca[4] # StdPadding
         /\ Len(cert) = 8 /\ cert[Len(cert)] = StdPadding /\ cert[Len(cert) - 1] = StdPadding
         /\ key[Len(key)] = StdPadding /\ key[Len(key) - 1] # StdPadding

\* the volume of this call holds no file
VolumeFresh == \A f \in FileNames : volumes[args.volumeName].files[f] = NoFile

\* C12: when RestoreEtcdSnapshot reaches the restore step, and when
\* StartKubeAPIServer is about to relocate the certificates, the volume it
\* writes into holds nothing that an earlier run left there.
C12_FreshVolume ==
  /\ wf = "restore" /\ pc = "r_run" => VolumeFresh
  /\ wf = "startKube" /\ pc = "v_checkIssue" /\ issueRet = "ok" => VolumeFresh

\* the removal of the container was attempted as the first action of the call
RemovalAttempted == Len(log) >= 1 /\ Is(1, "rm", args.containerName)

\* StartKubeAPIServer was called with an empty etcdEndpoint and has returned
Rejected == wf = "startKube" /\ args.etcdEndpoint = "" /\ pc = "done"

\* C13 as claimed: a call with an empty etcdEndpoint returns the error without
\* creating the volume, issuing or relocating certificates or running a
\* container, the removal of containerName was attempted before the check,
\* and no container of that name exists after the call.
C13_Original ==
  Rejected
    => /\ result = "etcd endpoint is required to start kube-apiserver"
       /\ RemovalAttempted
       /\ Len(log) = 1
       /\ ~Exists(args.containerName)

\* C13 as amended: as claimed, but the container of that name is gone only
\* if the removal succeeded; if it failed, the error is dropped and the
\* containers are as they were.
C13_RejectedAfterRemoval ==
  /\ wf = "startKube" /\ args.etcdEndpoint = ""
       => /\ pc \in {"k_rm", "done"}
          /\ \A i \in Pos : log[i].act = "rm"
          /\ Len(issued) = 0 \/ issued[Len(issued)].call < calls
  /\ Rejected
       => /\ result = "etcd endpoint is required to start kube-apiserver"
          /\ RemovalAttempted
          /\ Len(log) = 1
          /\ log[1].out = "ok" => ~Exists(args.containerName)

\* the rejected call removed an API server container that an earlier start ran
C13_Witness ==
  /\ Rejected
  /\ log[1].out = "ok"
  /\ \E n \in 1..Len(issued) : issued[n].via = "startKube"
  /\ \A c \in ContainerNames : ~Exists(c)
====
